---- MODULE Spec2Model ----
(***************************************************************************)
(* A model of election-orchestra's performer jobs                          *)
(* (src/create_election/performer_jobs.py): the validator                  *)
(* check_election_data and the three task handlers generate_private_info,  *)
(* generate_private_info_verificatum and generate_public_key, acting on    *)
(* one node's Store, private and public directory trees and task tree.     *)
(***************************************************************************)
EXTENDS Integers, Sequences, FiniteSets, Bags, TLC

(***************************************************************************)
(* Bounds of the model.                                                    *)
(***************************************************************************)
\* generate_private_info tasks whose subtasks have not run yet
MaxTasks == 2

(***************************************************************************)
(* Failures.  A TaskError carries a reason string; the reasons that embed  *)
(* an identifier ("... %s ...") keep it in arg.                            *)
(***************************************************************************)
TaskError(msg, a) == [msg |-> msg, arg |-> a]

\* the handler returned normally
OK == [msg |-> "ok", arg |-> ""]

\* an exception that is no TaskError (KeyError, AttributeError, IOError,
\* CalledProcessError, ...)
Exception == [msg |-> "exception", arg |-> ""]

(***************************************************************************)
(* Python values.  A submission (data / input_data) is a record:           *)
(*   types        the Python type of each key's value, "absent" when the   *)
(*                key is not in the dict                                   *)
(*   election_id  the identifier, when it is a string                      *)
(*   authorities  the list's entries, each a record of three values that   *)
(*                are strings, or ABSENT (no such key) or NOTSTR           *)
(*   questions    the question payload: items of the list, or what the     *)
(*                string parses to as JSON                                 *)
(*   sessions     the list's entries                                       *)
(***************************************************************************)
ABSENT == "<absent>"
NOTSTR == "<notstr>"

\* what stands for every value of an authority entry that is no dict and no
\* container (a number, None): "'name' not in adata" raises TypeError
NOTDICT == "<notdict>"

\* isinstance(v, basestring) of an authority or session value
isBasestring(v) == v \notin {ABSENT, NOTSTR, NOTDICT}

\* the characters of the identifiers the model uses
Chars(id) ==
    CASE id = "e1" -> <<"e", "1">>
      [] id = "e2" -> <<"e", "2">>
      [] id = "s1" -> <<"s", "1">>
      [] id = "s2" -> <<"s", "2">>
      [] id = "s3" -> <<"s", "3">>
      [] id = "e/1" -> <<"e", "/", "1">>
      [] id = "e1\n" -> <<"e", "1", "\n">>
      [] id = "" -> <<>>
      [] OTHER -> <<"?">>

IdAlphabet == {"e", "s", "1", "2", "3", "_", "-"}

\* re.match("^[a-zA-Z0-9_-]+$", id): one or more characters of the class,
\* then the end of the string or a newline that ends the string
re_match_id(id) ==
    LET cs == Chars(id)
        body == IF Len(cs) > 0 /\ cs[Len(cs)] = "\n"
                THEN SubSeq(cs, 1, Len(cs) - 1) ELSE cs
    IN  /\ Len(body) >= 1
        /\ \A i \in 1..Len(body) : body[i] \in IdAlphabet

\* app.config.get('MAX_NUM_QUESTIONS_PER_ELECTION', 10)
MAX_NUM_QUESTIONS_PER_ELECTION == 10

\* json.loads(data.get('questions_data', None)): the parsed value, or
\* "error" when the value is no string or the string is no JSON
json_loads(data) ==
    IF data.types["questions_data"] # "basestring" \/ data.questions.json = "bad"
    THEN [t |-> "error", n |-> 0]
    ELSE [t |-> data.questions.json, n |-> data.questions.n]

\* the first requirement of reqs (from index i) that data does not meet,
\* 0 when there is none
RECURSIVE FirstBadReq(_, _, _)
FirstBadReq(data, reqs, i) ==
    IF i > Len(reqs) THEN 0
    ELSE IF data.types[reqs[i].name] # reqs[i].isinstance THEN i
    ELSE FirstBadReq(data, reqs, i + 1)

requirements(check_extra) ==
    << [name |-> "election_id", isinstance |-> "basestring"],
       [name |-> "title", isinstance |-> "basestring"],
       [name |-> "url", isinstance |-> "basestring"],
       [name |-> "description", isinstance |-> "basestring"],
       [name |-> "is_recurring", isinstance |-> "bool"],
       [name |-> "authorities", isinstance |-> "list"] >>
    \o (IF check_extra
        THEN << [name |-> "callback_url", isinstance |-> "basestring"],
                [name |-> "extra", isinstance |-> "list"],
                [name |-> "questions_data", isinstance |-> "list"] >>
        ELSE << >>)

auth_reqs == <<"name", "orchestra_url", "ssl_cert">>

\* the first (authority, key) in list order whose value is missing or no
\* string, as the key's name, or NOTDICT when the membership test on the
\* entry raises; "" when every entry is well typed
RECURSIVE FirstBadAuth(_, _, _)
FirstBadAuth(auths, i, k) ==
    IF i > Len(auths) THEN ""
    ELSE IF k > Len(auth_reqs) THEN FirstBadAuth(auths, i + 1, 1)
    ELSE IF auths[i][auth_reqs[k]] = NOTDICT THEN NOTDICT
    ELSE IF ~isBasestring(auths[i][auth_reqs[k]]) THEN auth_reqs[k]
    ELSE FirstBadAuth(auths, i, k + 1)

\* len(l) == len(set([i[k] for i in l])) for every k of keys
unique_by_keys(l, keys) ==
    \A k \in keys : Len(l) = Cardinality({l[i][k] : i \in 1..Len(l)})

\* the keys check_election_data passes to unique_by_keys
UniqueKeys == {"ssl_cert", "orchestra_url"}

\* voting_start_date / voting_end_date: the key is there and holds None or
\* a datetime
dateOk(data, name) == data.types[name] \in {"NoneType", "datetime"}

\* Election.query.filter_by(id=...).count() > 0, on the Store's Election
\* table (the set of identifiers that have a row)
electionExists(rows, id) == id \in rows

\* check_election_data without the query of the Election table
check_election_data_no_query(data, check_extra, rows) ==
    LET reqs == requirements(check_extra)
        bad == FirstBadReq(data, reqs, 1)
        questions_data ==
            IF check_extra
            THEN [t |-> data.types["questions_data"], n |-> data.questions.n]
            ELSE json_loads(data)
        badAuth == FirstBadAuth(data.authorities, 1, 1)
    IN  IF ~check_extra /\ questions_data.t = "error"
          THEN TaskError("questions_data is not in json", "")
        ELSE IF bad # 0
          THEN TaskError("invalid parameter", reqs[bad].name)
        ELSE IF ~dateOk(data, "voting_start_date")
          THEN TaskError("invalid parameter", "voting_start_date")
        ELSE IF ~dateOk(data, "voting_end_date")
          THEN TaskError("invalid parameter", "voting_send_date")
        ELSE IF ~re_match_id(data.election_id)
          THEN TaskError("invalid characters in election_id", "")
        ELSE IF Len(data.authorities) = 0
          THEN TaskError("no authorities", "")
        ELSE IF \/ questions_data.t # "list"
                \/ questions_data.n < 1
                \/ questions_data.n > MAX_NUM_QUESTIONS_PER_ELECTION
          THEN TaskError("Unsupported number of questions in the election", "")
        ELSE IF badAuth = NOTDICT
          THEN Exception
        ELSE IF badAuth # ""
          THEN TaskError("invalid parameter", badAuth)
        ELSE IF ~unique_by_keys(data.authorities, UniqueKeys)
          THEN TaskError("invalid authorities parameters", "")
        ELSE OK

\* check_election_data matching the identifier before it looks at the
\* voting dates
check_election_data_pattern_first(data, check_extra, rows) ==
    LET reqs == requirements(check_extra)
        bad == FirstBadReq(data, reqs, 1)
        questions_data ==
            IF check_extra
            THEN [t |-> data.types["questions_data"], n |-> data.questions.n]
            ELSE json_loads(data)
        badAuth == FirstBadAuth(data.authorities, 1, 1)
    IN  IF ~check_extra /\ questions_data.t = "error"
          THEN TaskError("questions_data is not in json", "")
        ELSE IF bad # 0
          THEN TaskError("invalid parameter", reqs[bad].name)
        ELSE IF ~re_match_id(data.election_id)
          THEN TaskError("invalid characters in election_id", "")
        ELSE IF ~dateOk(data, "voting_start_date")
          THEN TaskError("invalid parameter", "voting_start_date")
        ELSE IF ~dateOk(data, "voting_end_date")
          THEN TaskError("invalid parameter", "voting_send_date")
        ELSE IF Len(data.authorities) = 0
          THEN TaskError("no authorities", "")
        ELSE IF \/ questions_data.t # "list"
                \/ questions_data.n < 1
                \/ questions_data.n > MAX_NUM_QUESTIONS_PER_ELECTION
          THEN TaskError("Unsupported number of questions in the election", "")
        ELSE IF check_extra /\ electionExists(rows, data.election_id)
          THEN TaskError("an election with id already exists", data.election_id)
        ELSE IF badAuth = NOTDICT
          THEN Exception
        ELSE IF badAuth # ""
          THEN TaskError("invalid parameter", badAuth)
        ELSE IF ~unique_by_keys(data.authorities, UniqueKeys)
          THEN TaskError("invalid authorities parameters", "")
        ELSE OK

\* check_election_data(data, check_extra) against the Election rows: OK, or
\* the TaskError (or other exception) it raises
check_election_data(data, check_extra, rows) ==
    LET reqs == requirements(check_extra)
        bad == FirstBadReq(data, reqs, 1)
        questions_data ==
            IF check_extra
            THEN [t |-> data.types["questions_data"], n |-> data.questions.n]
            ELSE json_loads(data)
        badAuth == FirstBadAuth(data.authorities, 1, 1)
    IN  IF ~check_extra /\ questions_data.t = "error"
          THEN TaskError("questions_data is not in json", "")
        ELSE IF bad # 0
          THEN TaskError("invalid parameter", reqs[bad].name)
        ELSE IF ~dateOk(data, "voting_start_date")
          THEN TaskError("invalid parameter", "voting_start_date")
        ELSE IF ~dateOk(data, "voting_end_date")
          THEN TaskError("invalid parameter", "voting_send_date")
        ELSE IF ~re_match_id(data.election_id)
          THEN TaskError("invalid characters in election_id", "")
        ELSE IF Len(data.authorities) = 0
          THEN TaskError("no authorities", "")
        ELSE IF \/ questions_data.t # "list"
                \/ questions_data.n < 1
                \/ questions_data.n > MAX_NUM_QUESTIONS_PER_ELECTION
          THEN TaskError("Unsupported number of questions in the election", "")
        ELSE IF check_extra /\ electionExists(rows, data.election_id)
          THEN TaskError("an election with id already exists", data.election_id)
        ELSE IF badAuth = NOTDICT
          THEN Exception
        ELSE IF badAuth # ""
          THEN TaskError("invalid parameter", badAuth)
        ELSE IF ~unique_by_keys(data.authorities, UniqueKeys)
          THEN TaskError("invalid authorities parameters", "")
        ELSE OK

(***************************************************************************)
(* The node's configuration (app.config) and the submissions it receives.  *)
(***************************************************************************)
\* app.config.get('ROOT_URL', '')
ROOT_URL == "u1"

\* app.config.get('SSL_CERT_STRING', '')
SSL_CERT_STRING == "c1"

\* the certificates a task's sender may hold: this node's and another's
SenderCerts == {"c1", "c2"}

Auth1 == [name |-> "auth1", orchestra_url |-> "u1", ssl_cert |-> "c1"]
Auth2 == [name |-> "auth2", orchestra_url |-> "u2", ssl_cert |-> "c2"]
Auth3 == [name |-> "auth3", orchestra_url |-> "u3", ssl_cert |-> "c3"]

\* a session entry of input_data['sessions']
SessionEntry(id, stub) == [t |-> "dict", id |-> id, stub |-> stub]

\* the key types of a well-formed submission; questions_data is a list on
\* the public API and its JSON string in a task's input_data
GoodTypes(qtype) ==
    [election_id |-> "basestring", title |-> "basestring",
     url |-> "basestring", description |-> "basestring",
     is_recurring |-> "bool", authorities |-> "list",
     callback_url |-> "basestring", extra |-> "list",
     questions_data |-> qtype,
     voting_start_date |-> "datetime", voting_end_date |-> "NoneType",
     sessions |-> "list", num_parties |-> "int",
     threshold_parties |-> "int"]

\* a well-formed submission of election id with n questions, one session
\* per question
Submission(id, n, qtype) ==
    [types |-> GoodTypes(qtype),
     election_id |-> id,
     authorities |-> <<Auth1, Auth2>>,
     questions |-> [json |-> "list", n |-> n],
     sessions |-> [i \in 1..n |->
                     SessionEntry(<<"s1", "s2", "s3">>[i],
                                  <<"stub1", "stub2", "stub3">>[i])]]

\* the input_data of the generate_private_info tasks the node receives
TaskInputs ==
    {"e1", "e1_noauth", "e1_nosessions", "e1_badsession", "e1_external"}

TaskInput(name) ==
    CASE name = "e1" -> Submission("e1", 2, "basestring")
      [] name = "e1_noauth" ->
           [Submission("e1", 2, "basestring") EXCEPT !.authorities = << >>]
      [] name = "e1_nosessions" ->
           [Submission("e1", 2, "basestring") EXCEPT !.sessions = << >>]
      [] name = "e1_badsession" ->
           [Submission("e1", 2, "basestring") EXCEPT
              !.sessions = <<SessionEntry("s1", "stub1"),
                             SessionEntry("s2", NOTSTR)>>]
      [] name = "e1_external" ->
           [Submission("e1", 2, "basestring") EXCEPT
              !.authorities = <<Auth2, Auth3>>]

TaskInputTable == [name \in TaskInputs |-> TaskInput(name)]

input_data(name) == TaskInputTable[name]

\* the submissions posted to the node's public API (check_extra mode)
PostInputs == {"e1", "e1_noauth", "e1_dupcert"}

PostInput(name) ==
    CASE name = "e1" -> Submission("e1", 2, "list")
      [] name = "e1_noauth" ->
           [Submission("e1", 2, "list") EXCEPT !.authorities = << >>]
      [] name = "e1_dupcert" ->
           [Submission("e1", 2, "list") EXCEPT
              !.authorities = <<Auth1, [Auth2 EXCEPT !.ssl_cert = "c1"]>>]

PostInputTable == [name \in PostInputs |-> PostInput(name)]

post_data(name) == PostInputTable[name]

(***************************************************************************)
(* The submissions check_election_data is tried on by itself: every        *)
(* combination of a title, a question payload, a voting start date, an     *)
(* identifier and an authority list, well formed or not.                   *)
(***************************************************************************)
\* question payloads: a list (what the public API holds), the JSON string
\* of a list (what a task's input_data holds), a string that is no JSON
QuestionPayloads ==
    {[t |-> "list", json |-> "list", n |-> n] : n \in {0, 2}}
    \cup {[t |-> "basestring", json |-> "list", n |-> n] : n \in {0, 2}}
    \cup {[t |-> "basestring", json |-> "bad", n |-> 0]}

\* authority lists: two distinct authorities, none, two of one name, of
\* one certificate, of one endpoint, one whose certificate is no string,
\* and one whose second entry is a number
AuthorityLists ==
    { <<Auth1, Auth2>>,
      << >>,
      <<Auth1, [Auth2 EXCEPT !.name = "auth1"]>>,
      <<Auth1, [Auth2 EXCEPT !.ssl_cert = "c1"]>>,
      <<Auth1, [Auth2 EXCEPT !.orchestra_url = "u1"]>>,
      <<Auth1, [Auth2 EXCEPT !.ssl_cert = NOTSTR]>>,
      <<Auth1, [name |-> NOTDICT, orchestra_url |-> NOTDICT,
                ssl_cert |-> NOTDICT]>> }

Candidates ==
    [title : {"basestring", "absent"},
     questions_data : QuestionPayloads,
     voting_start_date : {"datetime", "basestring", "absent"},
     election_id : {"e1", "e/1"},
     authorities : AuthorityLists]

\* the well-formed candidate of a task's input_data
GoodCandidate ==
    [title |-> "basestring",
     questions_data |-> [t |-> "basestring", json |-> "list", n |-> 2],
     voting_start_date |-> "datetime",
     election_id |-> "e1",
     authorities |-> <<Auth1, Auth2>>]

\* the submission (data) a candidate stands for
Candidate(d) ==
    [types |-> [GoodTypes(d.questions_data.t) EXCEPT
                  !["title"] = d.title,
                  !["voting_start_date"] = d.voting_start_date],
     election_id |-> d.election_id,
     authorities |-> d.authorities,
     questions |-> [json |-> d.questions_data.json, n |-> d.questions_data.n],
     sessions |-> << >>]

\* election and session identifiers that name directories on the node
ElectionIds == {"e1"}
SessionIds == {"s1", "s2"}
Paths == ElectionIds \X SessionIds

\* the (election, session) pairs generate_public_key is asked about: the
\* node's own and two it never heard of
PublishTargets == Paths \cup {<<"e1", "s3">>, <<"e2", "s1">>}

(***************************************************************************)
(* State.                                                                  *)
(***************************************************************************)
VARIABLES
    autoaccept,  \* app.config AUTOACCEPT_REQUESTS
    store,       \* the Store: per election id, its committed rows
    priv,        \* PRIVATE_DATA_PATH: per election/session, the directory
    pub,         \* PUBLIC_DATA_PATH: per election/session, the directory
    tasks,       \* the generate_private_info tasks whose
                 \* generate_private_info_verificatum subtask has not run
                 \* yet, with their approval subtask: a bag
    handled,     \* the generate_private_info tasks that returned normally,
                 \* by input_data and sender
    last,        \* the handler that ran last: its arguments and what it
                 \* returned, added or reported
    running      \* the generate_public_key tasks that run statement by
                 \* statement, side by side: per worker, where it is

vars == <<autoaccept, store, priv, pub, tasks, handled, last, running>>

\* a file that does not exist
NoFile == ""

NoRows == [present |-> FALSE, authorities |-> << >>, sessions |-> << >>]

NoPrivDir ==
    [exists |-> FALSE, stub |-> NoFile, localProtInfo |-> NoFile,
     protInfo |-> NoFile, publicKey_raw |-> NoFile, publicKey_json |-> NoFile]

NoPubDir == [exists |-> FALSE, protInfo |-> NoFile, publicKey_json |-> NoFile]

\* op          the handler
\* input, sender, election_id, session_id   its arguments
\* result      OK or the failure it raised
\* path        the role generate_private_info resolved
\* subtasks    the subtasks generate_private_info added to its task
\* decision    the approval output generate_private_info_verificatum read
\* engine      the number of CryptoEngine invocations it made
\* failed_at   the session (by position) whose CryptoEngine invocation
\*             exited nonzero, 0 when none did
\* output_set, output_data   the output it set on the parent task
\* own_output  the output it set on its own task
\* data, check_extra   the arguments of a call of check_election_data
\* protInfo_content    the merged descriptor generate_public_key was given
NoCall ==
    [op |-> "none", input |-> "", sender |-> "", election_id |-> "",
     session_id |-> "", result |-> OK, path |-> "", subtasks |-> << >>,
     decision |-> {}, engine |-> 0, failed_at |-> 0, output_set |-> FALSE,
     output_data |-> << >>, own_output |-> "", data |-> GoodCandidate,
     check_extra |-> FALSE, protInfo_content |-> NoFile]

\* the workers that may run generate_public_key at the same time
Workers == {"w1", "w2"}

\* a worker with no task
Idle ==
    [pc |-> "idle", election_id |-> "", session_id |-> "",
     protInfo_content |-> NoFile, result |-> OK, keygen |-> 0]

Init ==
    /\ running = [w \in Workers |-> Idle]
    /\ autoaccept \in BOOLEAN
    /\ store = [e \in ElectionIds |-> NoRows]
    /\ priv = [p \in Paths |-> NoPrivDir]
    /\ pub = [p \in Paths |-> NoPubDir]
    /\ tasks = EmptyBag
    /\ handled = {}
    /\ last = NoCall

\* os.path.exists of a file
fileExists(content) == content # NoFile

\* os.path.exists(election_privpath): the election's directory exists once
\* mkdir_recursive has made a session directory below it
electionDirExists(fs, e) ==
    \E p \in Paths : p[1] = e /\ fs[p].exists

\* the directory of a session, NoPrivDir for a path outside the tree
privDir(fs, e, s) == IF <<e, s>> \in Paths THEN fs[<<e, s>>] ELSE NoPrivDir

\* os.path.exists(session_privpath)
sessionDirExists(fs, e, s) == privDir(fs, e, s).exists

\* the identifiers that have an Election row
electionRows(st) == {e \in ElectionIds : st[e].present}

\* newRows with no status given to the Session rows
newRows_no_status(data) ==
    [present |-> TRUE,
     authorities |-> data.authorities,
     sessions |-> [i \in 1..Len(data.sessions) |->
                     [id |-> data.sessions[i].id, status |-> "",
                      public_key |-> "", question_number |-> i - 1]]]

\* the rows generate_private_info adds for a submission: the Election, one
\* Authority per entry, one Session per entry (question_number from 0)
newRows(data) ==
    [present |-> TRUE,
     authorities |-> data.authorities,
     sessions |-> [i \in 1..Len(data.sessions) |->
                     [id |-> data.sessions[i].id, status |-> "default",
                      public_key |-> "", question_number |-> i - 1]]]

(***************************************************************************)
(* generate_private_info                                                   *)
(***************************************************************************)
\* one entry of input_data['sessions'] passes the handler's check
sessionOk(session) ==
    /\ session.t = "dict"
    /\ session.id # ABSENT
    /\ session.stub # ABSENT
    /\ isBasestring(session.stub)
    /\ re_match_id(session.id)

\* the check of input_data['sessions']
check_sessions(data) ==
    IF data.types["sessions"] # "list" \/ Len(data.sessions) = 0
      THEN TaskError("No sessions provided", "")
    ELSE IF \E i \in 1..Len(data.sessions) : ~sessionOk(data.sessions[i])
      THEN TaskError("Invalid session data provided", "")
    ELSE OK

\* the name of the (last) authority whose orchestra_url is ROOT_URL, ""
\* (None) when there is none
auth_name(auths) ==
    LET mine == {i \in 1..Len(auths) : auths[i].orchestra_url = ROOT_URL}
    IN  IF mine = {} THEN ""
        ELSE auths[CHOOSE i \in mine : \A j \in mine : j <= i].name

\* the first session of the list whose localProtInfo.xml exists, 0 when
\* none does
firstCreated(fs, e, sessions) ==
    LET made == {i \in 1..Len(sessions) :
                   fileExists(privDir(fs, e, sessions[i].id).localProtInfo)}
    IN  IF made = {} THEN 0 ELSE CHOOSE i \in made : \A j \in made : i <= j

\* check_input_data without the localProtInfo.xml check
check_input_data_no_protinfo_check(name) ==
    LET data == input_data(name)
        checked == check_election_data(data, FALSE, electionRows(store))
        sess == check_sessions(data)
    IN  IF data.types["election_id"] # "basestring" THEN Exception
        ELSE IF checked # OK THEN checked
        ELSE IF sess # OK THEN sess
        ELSE IF auth_name(data.authorities) = ""
          THEN TaskError("trying to process what SEEMS to be an external election", "")
        ELSE OK

\* step 1 of the handler, "check this is a new election and check input
\* data": OK, or the failure raised before the role is resolved
check_input_data(name) ==
    LET data == input_data(name)
        checked == check_election_data(data, FALSE, electionRows(store))
        sess == check_sessions(data)
        created == firstCreated(priv, data.election_id, data.sessions)
    IN  IF data.types["election_id"] # "basestring" THEN Exception
        ELSE IF checked # OK THEN checked
        ELSE IF sess # OK THEN sess
        ELSE IF auth_name(data.authorities) = ""
          THEN TaskError("trying to process what SEEMS to be an external election", "")
        ELSE IF created # 0
          THEN TaskError("session_id already created", data.sessions[created].id)
        ELSE OK

\* certs_differ against the wrong configuration key
certs_differ_root_url(a, b) == a # ROOT_URL

\* frestq.protocol.certs_differ(sender_ssl_cert, SSL_CERT_STRING)
certs_differ(a, b) == a # b

\* the performer's loop over the sessions, as steps: step 2i-1 is
\* mkdir_recursive(session_privpath) of session i, step 2i the write of its
\* stub.xml.  The tree after steps k..done.
RECURSIVE create_sessions(_, _, _, _, _)
create_sessions(fs, e, sessions, k, done) ==
    IF k > done \/ k > 2 * Len(sessions) THEN fs
    ELSE LET i == (k + 1) \div 2
             p == <<e, sessions[i].id>>
             fs2 == IF k % 2 = 1
                    THEN [fs EXCEPT ![p].exists = TRUE]
                    ELSE [fs EXCEPT ![p].stub = sessions[i].stub]
         IN  create_sessions(fs2, e, sessions, k + 1, done)

\* the steps of the performer path that may fail: 2n directory and file
\* steps, then db.session.commit(); 0 is "none fails"
FailPoints(name) == 0..(2 * Len(input_data(name).sessions) + 1)

\* the subtasks the handler adds: the approval unless autoaccept, then
\* generate_private_info_verificatum
addedSubtasks ==
    (IF autoaccept THEN << >> ELSE <<"approve_election">>)
    \o <<"generate_private_info_verificatum">>

\* the task with the subtasks added
newTask(name) ==
    [input |-> name,
     approval |-> [state |-> IF autoaccept THEN "none" ELSE "pending",
                   output_data |-> {}]]

\* private_info with the session directories made before the check that
\* the election's directory does not exist
private_info_mkdir_first(name, sender, fail) ==
    LET data == input_data(name)
        e == data.election_id
        same == [result |-> OK, path |-> "", store |-> store, priv |-> priv,
                 subtasks |-> << >>]
        n == Len(data.sessions)
        made == create_sessions(priv, e, data.sessions, 1, 2 * n)
    IN  IF certs_differ(sender, SSL_CERT_STRING)
          THEN IF electionDirExists(priv, e)
                 THEN [same EXCEPT !.path = "performer", !.priv = made,
                         !.result = TaskError("Already existing election id", e)]
               ELSE IF fail # 0
                 THEN [same EXCEPT !.path = "performer", !.result = Exception,
                         !.priv = create_sessions(priv, e, data.sessions, 1, fail - 1)]
               ELSE [result |-> OK, path |-> "performer",
                     store |-> [store EXCEPT ![e] = newRows(data)],
                     priv |-> made, subtasks |-> addedSubtasks]
        ELSE IF ~autoaccept /\ ~store[e].present
          THEN [same EXCEPT !.path = "director", !.result = Exception]
        ELSE [same EXCEPT !.path = "director", !.subtasks = addedSubtasks]

\* step 2 of the handler and the subtasks, once the input data passed:
\* the result, the role resolved, the Store and the private tree it leaves
\* and the subtasks added.  fail is the step of the performer path at which
\* the environment fails (a directory or file that cannot be written, a
\* commit that is refused).
private_info(name, sender, fail) ==
    LET data == input_data(name)
        e == data.election_id
        same == [result |-> OK, path |-> "", store |-> store, priv |-> priv,
                 subtasks |-> << >>]
        n == Len(data.sessions)
    IN  IF certs_differ(sender, SSL_CERT_STRING)
          THEN IF electionDirExists(priv, e)
                 THEN [same EXCEPT !.path = "performer", !.result =
                         TaskError("Already existing election id", e)]
               ELSE IF \/ data.types["num_parties"] = "absent"
                       \/ data.types["threshold_parties"] = "absent"
                 THEN [same EXCEPT !.path = "performer", !.result = Exception]
               ELSE IF fail # 0
                 THEN [same EXCEPT !.path = "performer", !.result = Exception,
                         !.priv = create_sessions(priv, e, data.sessions, 1, fail - 1)]
               ELSE [result |-> OK, path |-> "performer",
                     store |-> [store EXCEPT ![e] = newRows(data)],
                     priv |-> create_sessions(priv, e, data.sessions, 1, 2 * n),
                     subtasks |-> addedSubtasks]
        ELSE IF ~autoaccept /\ ~store[e].present
          \* election is None: election.title raises AttributeError
          THEN [same EXCEPT !.path = "director", !.result = Exception]
        ELSE [same EXCEPT !.path = "director", !.subtasks = addedSubtasks]

\* the handler on input_data name from sender; checked is the outcome of
\* its step 1
generate_private_info(name, sender, fail, checked) ==
    /\ fail # 0 => /\ checked = OK
                   /\ certs_differ(sender, SSL_CERT_STRING)
                   /\ ~electionDirExists(priv, input_data(name).election_id)
    /\ LET out == IF checked = OK THEN private_info(name, sender, fail)
                  ELSE [result |-> checked, path |-> "", store |-> store,
                        priv |-> priv, subtasks |-> << >>]
       IN  /\ out.subtasks # << >> => BagCardinality(tasks) < MaxTasks
           /\ store' = out.store
           /\ priv' = out.priv
           /\ tasks' = IF out.subtasks # << >>
                       THEN tasks (+) SetToBag({newTask(name)})
                       ELSE tasks
           /\ handled' = IF out.result = OK
                         THEN handled \cup {[input |-> name, sender |-> sender]}
                         ELSE handled
           /\ last' = [NoCall EXCEPT !.op = "generate_private_info",
                         !.input = name, !.sender = sender,
                         !.election_id = input_data(name).election_id,
                         !.result = out.result, !.path = out.path,
                         !.subtasks = out.subtasks]
    /\ UNCHANGED <<autoaccept, pub, running>>

(***************************************************************************)
(* The approval task (ExternalTask "approve_election"): the operator's     *)
(* decision is the task's output_data, a dict, here a set of key/value     *)
(* pairs ({} for no output).                                               *)
(***************************************************************************)
Accepted == {<<"status", "accepted">>}

Decisions ==
    { {},
      Accepted,
      {<<"status", "rejected">>},
      {<<"status", "accepted">>, <<"comment", "ok">>} }

ApprovalDecision(task, d) ==
    /\ BagIn(task, tasks)
    /\ task.approval.state = "pending"
    /\ tasks' = (tasks (-) SetToBag({task})) (+)
                SetToBag({[task EXCEPT !.approval =
                             [state |-> "finished", output_data |-> d]]})
    /\ last' = [NoCall EXCEPT !.op = "approve_election",
                  !.input = task.input,
                  !.election_id = input_data(task.input).election_id,
                  !.decision = d]
    /\ UNCHANGED <<autoaccept, store, priv, pub, handled, running>>

(***************************************************************************)
(* generate_private_info_verificatum                                       *)
(***************************************************************************)
\* CryptoEngine: the localProtInfo.xml that "vmni -party -name <name>"
\* writes beside a stub
LocalDescriptor(name, stub) == "local(" \o name \o "," \o stub \o ")"

\* the loop over the sessions from session j on.  vmni fails (nonzero exit)
\* at session failAt, and where the session has no stub to read; a session
\* directory that does not exist fails the call before vmni is started.
\* acc holds the tree, the descriptors read so far and the number of vmni
\* invocations.
RECURSIVE generate_protinfos(_, _, _, _, _, _)
generate_protinfos(acc, e, sessions, name, j, failAt) ==
    IF j > Len(sessions) THEN acc
    ELSE LET dir == privDir(acc.priv, e, sessions[j].id)
         IN  IF ~dir.exists THEN [acc EXCEPT !.ok = FALSE]
             ELSE IF j = failAt \/ ~fileExists(dir.stub)
               THEN [acc EXCEPT !.ok = FALSE, !.engine = @ + 1, !.failed_at = j]
             ELSE LET content == LocalDescriptor(name, dir.stub)
                      p == <<e, sessions[j].id>>
                  IN  generate_protinfos(
                        [acc EXCEPT !.priv[p].localProtInfo = content,
                                    !.protinfos = Append(@, content),
                                    !.engine = @ + 1],
                        e, sessions, name, j + 1, failAt)

\* not_accepted looking at the status key alone
not_accepted_status_only(task) ==
    <<"status", "accepted">> \notin task.approval.output_data

\* task.get_prev().get_data()['output_data'] != dict(status="accepted")
not_accepted(task) == task.approval.output_data # Accepted

\* a sequence back to front
RECURSIVE Reverse(_)
Reverse(q) == IF q = << >> THEN << >> ELSE Append(Reverse(Tail(q)), Head(q))

\* private_info_verificatum collecting the descriptors in front of the list
private_info_verificatum_prepend(task, failAt) ==
    LET data == input_data(task.input)
        same == [result |-> OK, priv |-> priv, engine |-> 0, failed_at |-> 0,
                 output_set |-> FALSE, output_data |-> << >>,
                 own_output |-> ""]
        run == generate_protinfos(
                 [priv |-> priv, protinfos |-> << >>, ok |-> TRUE, engine |-> 0,
                  failed_at |-> 0],
                 data.election_id, data.sessions,
                 auth_name(data.authorities), 1, failAt)
    IN  IF ~autoaccept /\ not_accepted(task)
          THEN [same EXCEPT !.result = TaskError("task not accepted", ""),
                            !.own_output = "task not accepted"]
        ELSE IF ~run.ok
          THEN [same EXCEPT !.result = Exception, !.priv = run.priv,
                            !.engine = run.engine,
                            !.failed_at = run.failed_at]
        ELSE [same EXCEPT !.priv = run.priv, !.engine = run.engine,
                          !.output_set = TRUE,
                          !.output_data = Reverse(run.protinfos)]

\* private_info_verificatum reporting what it has when CryptoEngine fails
private_info_verificatum_partial(task, failAt) ==
    LET data == input_data(task.input)
        same == [result |-> OK, priv |-> priv, engine |-> 0, failed_at |-> 0,
                 output_set |-> FALSE, output_data |-> << >>,
                 own_output |-> ""]
        run == generate_protinfos(
                 [priv |-> priv, protinfos |-> << >>, ok |-> TRUE, engine |-> 0,
                  failed_at |-> 0],
                 data.election_id, data.sessions,
                 auth_name(data.authorities), 1, failAt)
    IN  IF ~autoaccept /\ not_accepted(task)
          THEN [same EXCEPT !.result = TaskError("task not accepted", ""),
                            !.own_output = "task not accepted"]
        ELSE [same EXCEPT !.result = IF run.ok THEN OK ELSE Exception,
                          !.priv = run.priv, !.engine = run.engine,
                          !.failed_at = run.failed_at,
                          !.output_set = TRUE, !.output_data = run.protinfos]

\* private_info_verificatum removing the election's session directories
\* when the task was not accepted
private_info_verificatum_rollback(task, failAt) ==
    LET data == input_data(task.input)
        same == [result |-> OK, priv |-> priv, engine |-> 0, failed_at |-> 0,
                 output_set |-> FALSE, output_data |-> << >>,
                 own_output |-> ""]
        run == generate_protinfos(
                 [priv |-> priv, protinfos |-> << >>, ok |-> TRUE, engine |-> 0,
                  failed_at |-> 0],
                 data.election_id, data.sessions,
                 auth_name(data.authorities), 1, failAt)
    IN  IF ~autoaccept /\ not_accepted(task)
          THEN [same EXCEPT !.result = TaskError("task not accepted", ""),
                            !.own_output = "task not accepted",
                            !.priv = [p \in Paths |->
                                        IF p[1] = data.election_id
                                        THEN NoPrivDir ELSE priv[p]]]
        ELSE IF ~run.ok
          THEN [same EXCEPT !.result = Exception, !.priv = run.priv,
                            !.engine = run.engine,
                            !.failed_at = run.failed_at]
        ELSE [same EXCEPT !.priv = run.priv, !.engine = run.engine,
                          !.output_set = TRUE, !.output_data = run.protinfos]

\* what one execution of the handler does for a task
private_info_verificatum(task, failAt) ==
    LET data == input_data(task.input)
        same == [result |-> OK, priv |-> priv, engine |-> 0, failed_at |-> 0,
                 output_set |-> FALSE, output_data |-> << >>,
                 own_output |-> ""]
        run == generate_protinfos(
                 [priv |-> priv, protinfos |-> << >>, ok |-> TRUE, engine |-> 0,
                  failed_at |-> 0],
                 data.election_id, data.sessions,
                 auth_name(data.authorities), 1, failAt)
    IN  IF ~autoaccept /\ not_accepted(task)
          THEN [same EXCEPT !.result = TaskError("task not accepted", ""),
                            !.own_output = "task not accepted"]
        ELSE IF ~run.ok
          THEN [same EXCEPT !.result = Exception, !.priv = run.priv,
                            !.engine = run.engine,
                            !.failed_at = run.failed_at]
        ELSE [same EXCEPT !.priv = run.priv, !.engine = run.engine,
                          !.output_set = TRUE, !.output_data = run.protinfos]

\* the handler runs once the task before it (the approval, if any) has
\* finished; the task then leaves the bag of waiting tasks
generate_private_info_verificatum(task, failAt) ==
    /\ BagIn(task, tasks)
    /\ task.approval.state # "pending"
    /\ failAt \in 0..Len(input_data(task.input).sessions)
    /\ failAt # 0 => autoaccept \/ ~not_accepted(task)
    /\ LET out == private_info_verificatum(task, failAt)
       IN  /\ failAt # 0 => out.result = Exception
           /\ priv' = out.priv
           /\ tasks' = tasks (-) SetToBag({task})
           /\ last' = [NoCall EXCEPT
                         !.op = "generate_private_info_verificatum",
                         !.input = task.input,
                         !.election_id = input_data(task.input).election_id,
                         !.decision = task.approval.output_data,
                         !.result = out.result, !.engine = out.engine,
                         !.failed_at = out.failed_at,
                         !.output_set = out.output_set,
                         !.output_data = out.output_data,
                         !.own_output = out.own_output]
    /\ UNCHANGED <<autoaccept, store, pub, handled, running>>

(***************************************************************************)
(* generate_public_key                                                     *)
(***************************************************************************)
\* the merged descriptors a caller may supply as protInfo_content
ProtInfoContents == {"merged1", "merged2"}

\* CryptoEngine: the keys "vmn -keygen" may produce
RawKeys == {"key1", "key2"}

\* CryptoEngine: "vmnc -pkey -outi json publicKey_raw publicKey_json"
transcode(raw) == "json(" \o raw \o ")"

\* the steps after the guards at which the environment may fail
PublishFailures == {"none", "keygen", "transcode", "copy_key", "copy_protinfo"}

\* publish_key writing the protInfo.xml it is given over the one there is
publish_key_overwrite(e, s, content, key, fail) ==
    LET p == <<e, s>>
        written == [priv EXCEPT ![p].protInfo = content]
        keyed == [written EXCEPT ![p].publicKey_raw = key]
        coded == [keyed EXCEPT ![p].publicKey_json = transcode(key)]
        made == [pub EXCEPT ![p].exists = TRUE]
        copied1 == [made EXCEPT ![p].publicKey_json = coded[p].publicKey_json]
        copied2 == [copied1 EXCEPT ![p].protInfo = coded[p].protInfo]
    IN  IF fail = "keygen"
          THEN [result |-> Exception, priv |-> written, pub |-> pub,
                engine |-> 1]
        ELSE IF fail = "transcode"
          THEN [result |-> Exception, priv |-> keyed, pub |-> pub,
                engine |-> 2]
        ELSE IF fail = "copy_key"
          THEN [result |-> Exception, priv |-> coded, pub |-> made,
                engine |-> 2]
        ELSE IF fail = "copy_protinfo"
          THEN [result |-> Exception, priv |-> coded, pub |-> copied1,
                engine |-> 2]
        ELSE [result |-> OK, priv |-> coded, pub |-> copied2, engine |-> 2]

\* the handler past its sanity checks: the merged protInfo.xml if there
\* is none, keygen, transcode, and the copies to the public directory
publish_key(e, s, content, key, fail) ==
    LET dir == privDir(priv, e, s)
        p == <<e, s>>
        written == IF fileExists(dir.protInfo) THEN priv
                   ELSE [priv EXCEPT ![p].protInfo = content]
        keyed == [written EXCEPT ![p].publicKey_raw = key]
        coded == [keyed EXCEPT ![p].publicKey_json = transcode(key)]
        made == [pub EXCEPT ![p].exists = TRUE]
        copied1 == [made EXCEPT ![p].publicKey_json = coded[p].publicKey_json]
        copied2 == [copied1 EXCEPT ![p].protInfo = coded[p].protInfo]
    IN  IF fail = "keygen"
          THEN [result |-> Exception, priv |-> written, pub |-> pub,
                engine |-> 1]
        ELSE IF fail = "transcode"
          THEN [result |-> Exception, priv |-> keyed, pub |-> pub,
                engine |-> 2]
        ELSE IF fail = "copy_key"
          THEN [result |-> Exception, priv |-> coded, pub |-> made,
                engine |-> 2]
        ELSE IF fail = "copy_protinfo"
          THEN [result |-> Exception, priv |-> coded, pub |-> copied1,
                engine |-> 2]
        ELSE [result |-> OK, priv |-> coded, pub |-> copied2, engine |-> 2]

\* public_key guarding on publicKey_json alone
public_key_json_guard(e, s, content, key, fail) ==
    LET dir == privDir(priv, e, s)
        same == [result |-> OK, priv |-> priv, pub |-> pub, engine |-> 0]
    IN  IF ~sessionDirExists(priv, e, s)
          THEN [same EXCEPT !.result =
                  TaskError("invalid session_id / election_id", "")]
        ELSE IF fileExists(dir.publicKey_json)
          THEN [same EXCEPT !.result = TaskError("pubkey already created", "")]
        ELSE publish_key(e, s, content, key, fail)

\* public_key checking the election's directory, not the session's: the
\* write of protInfo.xml then fails where the session has no directory
public_key_election_dir(e, s, content, key, fail) ==
    LET dir == privDir(priv, e, s)
        same == [result |-> OK, priv |-> priv, pub |-> pub, engine |-> 0]
    IN  IF ~electionDirExists(priv, e)
          THEN [same EXCEPT !.result =
                  TaskError("invalid session_id / election_id", "")]
        ELSE IF ~sessionDirExists(priv, e, s)
          THEN [same EXCEPT !.result = Exception]
        ELSE IF fileExists(dir.publicKey_raw) \/ fileExists(dir.publicKey_json)
          THEN [same EXCEPT !.result = TaskError("pubkey already created", "")]
        ELSE publish_key(e, s, content, key, fail)

\* public_key publishing before the guard on the key files
public_key_publish_first(e, s, content, key, fail) ==
    LET dir == privDir(priv, e, s)
        p == <<e, s>>
        same == [result |-> OK, priv |-> priv, pub |-> pub, engine |-> 0]
    IN  IF ~sessionDirExists(priv, e, s)
          THEN [same EXCEPT !.result =
                  TaskError("invalid session_id / election_id", "")]
        ELSE IF fileExists(dir.publicKey_raw) \/ fileExists(dir.publicKey_json)
          THEN [same EXCEPT !.result = TaskError("pubkey already created", "")]
        ELSE IF fail = "none"
          THEN publish_key(e, s, content, key, fail)
        ELSE [result |-> Exception, priv |-> priv,
              pub |-> [pub EXCEPT ![p].exists = TRUE,
                                  ![p].publicKey_json = transcode(key)],
              engine |-> 1]

\* what one execution of the handler does
public_key(e, s, content, key, fail) ==
    LET dir == privDir(priv, e, s)
        same == [result |-> OK, priv |-> priv, pub |-> pub, engine |-> 0]
    IN  IF ~sessionDirExists(priv, e, s)
          THEN [same EXCEPT !.result =
                  TaskError("invalid session_id / election_id", "")]
        ELSE IF fileExists(dir.publicKey_raw) \/ fileExists(dir.publicKey_json)
          THEN [same EXCEPT !.result = TaskError("pubkey already created", "")]
        ELSE publish_key(e, s, content, key, fail)

generate_public_key(e, s, content, key, fail) ==
    LET out == public_key(e, s, content, key, fail)
    IN  /\ fail # "none" => out.result = Exception
        /\ priv' = out.priv
        /\ pub' = out.pub
        /\ last' = [NoCall EXCEPT !.op = "generate_public_key",
                      !.election_id = e, !.session_id = s,
                      !.protInfo_content = content,
                      !.result = out.result, !.engine = out.engine]
        /\ UNCHANGED <<autoaccept, store, tasks, handled, running>>

(***************************************************************************)
(* generate_public_key statement by statement, for tasks that workers run  *)
(* side by side: the sanity checks, the write of protInfo.xml, keygen,     *)
(* the transcode and the publication are steps of their own, and another   *)
(* worker's steps may come between them.                                   *)
(***************************************************************************)
\* a worker takes a task for (e, s)
public_key_begin(w, e, s, content) ==
    /\ running[w].pc = "idle"
    /\ running' = [running EXCEPT ![w] =
                     [Idle EXCEPT !.pc = "check", !.election_id = e,
                                  !.session_id = s,
                                  !.protInfo_content = content]]
    /\ UNCHANGED <<autoaccept, store, priv, pub, tasks, handled, last>>

\* "some sanity checks, as this is not a local task"
public_key_check(w) ==
    LET r == running[w]
        dir == privDir(priv, r.election_id, r.session_id)
    IN  /\ r.pc = "check"
        /\ running' = [running EXCEPT ![w] =
              IF ~sessionDirExists(priv, r.election_id, r.session_id)
                THEN [r EXCEPT !.pc = "done", !.result =
                        TaskError("invalid session_id / election_id", "")]
              ELSE IF \/ fileExists(dir.publicKey_raw)
                      \/ fileExists(dir.publicKey_json)
                THEN [r EXCEPT !.pc = "done", !.result =
                        TaskError("pubkey already created", "")]
              ELSE [r EXCEPT !.pc = "protinfo"]]
        /\ UNCHANGED <<autoaccept, store, priv, pub, tasks, handled, last>>

\* "if it's not local, we have to create the merged protInfo.xml"
public_key_protinfo(w) ==
    LET r == running[w]
        p == <<r.election_id, r.session_id>>
    IN  /\ r.pc = "protinfo"
        /\ priv' = IF fileExists(priv[p].protInfo) THEN priv
                    ELSE [priv EXCEPT ![p].protInfo = r.protInfo_content]
        /\ running' = [running EXCEPT ![w].pc = "keygen"]
        /\ UNCHANGED <<autoaccept, store, pub, tasks, handled, last>>

\* "generate raw public key": vmn -keygen writes the key it generated;
\* where another worker's publicKey_raw is in its way it writes over it or
\* exits nonzero
public_key_keygen(w, key, exit) ==
    LET r == running[w]
        p == <<r.election_id, r.session_id>>
    IN  /\ r.pc = "keygen"
        /\ exit # 0 => fileExists(priv[p].publicKey_raw)
        /\ IF exit = 0
             THEN /\ priv' = [priv EXCEPT ![p].publicKey_raw = key]
                  /\ running' = [running EXCEPT ![w].pc = "transcode",
                                                ![w].keygen = 1]
             ELSE /\ priv' = priv
                  /\ running' = [running EXCEPT ![w].pc = "done",
                                                ![w].keygen = 1,
                                                ![w].result = Exception]
        /\ UNCHANGED <<autoaccept, store, pub, tasks, handled, last>>

\* "transform it into json format"
public_key_transcode(w) ==
    LET r == running[w]
        p == <<r.election_id, r.session_id>>
    IN  /\ r.pc = "transcode"
        /\ priv' = [priv EXCEPT ![p].publicKey_json =
                                  transcode(priv[p].publicKey_raw)]
        /\ running' = [running EXCEPT ![w].pc = "publish"]
        /\ UNCHANGED <<autoaccept, store, pub, tasks, handled, last>>

\* "publish protInfo.xml and publicKey_json"
public_key_publish(w) ==
    LET r == running[w]
        p == <<r.election_id, r.session_id>>
    IN  /\ r.pc = "publish"
        /\ pub' = [pub EXCEPT ![p].exists = TRUE,
                              ![p].publicKey_json = priv[p].publicKey_json,
                              ![p].protInfo = priv[p].protInfo]
        /\ running' = [running EXCEPT ![w].pc = "done"]
        /\ UNCHANGED <<autoaccept, store, priv, tasks, handled, last>>

(***************************************************************************)
(* The director's submission (public_api.post_election): the election is   *)
(* validated in first-submission mode and its rows, directories and stubs  *)
(* are created eagerly.                                                    *)
(***************************************************************************)
post_election(name) ==
    LET data == post_data(name)
        e == data.election_id
        checked == check_election_data(data, TRUE, electionRows(store))
    IN  /\ IF checked = OK
           THEN /\ store' = [store EXCEPT ![e] = newRows(data)]
                /\ priv' = create_sessions(priv, e, data.sessions, 1,
                                           2 * Len(data.sessions))
           ELSE UNCHANGED <<store, priv>>
        /\ last' = [NoCall EXCEPT !.op = "post_election", !.input = name,
                      !.election_id = e, !.result = checked]
        /\ UNCHANGED <<autoaccept, pub, tasks, handled, running>>

(***************************************************************************)
(* check_election_data by itself, on a candidate submission and in either  *)
(* mode, against the Election rows the Store holds.                        *)
(***************************************************************************)
validate_election_data(d, check_extra) ==
    /\ last' = [NoCall EXCEPT !.op = "check_election_data",
                  !.election_id = d.election_id,
                  !.data = d, !.check_extra = check_extra,
                  !.result = check_election_data(Candidate(d), check_extra,
                                                 electionRows(store))]
    /\ UNCHANGED <<autoaccept, store, priv, pub, tasks, handled, running>>

(***************************************************************************)
(* The node.                                                               *)
(***************************************************************************)
\* the handlers, their inputs drawn from the given sets
PostStep(names) ==
    \E name \in names : post_election(name)

PrivateInfoStep(names, senders, failing) ==
    \E name \in names :
      LET checked == check_input_data(name)
      IN  \E sender \in senders :
            \E fail \in IF failing THEN FailPoints(name) ELSE {0} :
              generate_private_info(name, sender, fail, checked)

ApprovalStep(decisions) ==
    \E task \in BagToSet(tasks), d \in decisions : ApprovalDecision(task, d)

VerificatumStep(failing) ==
    \E task \in BagToSet(tasks) :
      \E failAt \in IF failing THEN 0..Cardinality(SessionIds) ELSE {0} :
        generate_private_info_verificatum(task, failAt)

PublicKeyStep(targets, contents, keys, failures) ==
    \E p \in targets, content \in contents, key \in keys, fail \in failures :
      generate_public_key(p[1], p[2], content, key, fail)

\* The ceremony up to the local descriptors: every submission, sender,
\* decision and failure of bootstrap and phase 1; phase 2 with one merged
\* descriptor and one key, and no failure.
Next ==
    \/ PostStep(PostInputs)
    \/ PrivateInfoStep(TaskInputs, SenderCerts, TRUE)
    \/ ApprovalStep(Decisions)
    \/ VerificatumStep(TRUE)
    \/ PublicKeyStep(PublishTargets, {"merged1"}, {"key1"}, {"none"})

Spec == Init /\ [][Next]_vars

\* The ceremony around phase 2: every target, merged descriptor, key and
\* failure of generate_public_key, on a node that is the director of a
\* posted election or the performer of a well-formed one, with no failure
\* before phase 2.
NextPublish ==
    \/ PostStep({"e1"})
    \/ PrivateInfoStep({"e1"}, {"c2"}, FALSE)
    \/ ApprovalStep({Accepted, {<<"status", "rejected">>}})
    \/ VerificatumStep(FALSE)
    \/ PublicKeyStep(PublishTargets, ProtInfoContents, RawKeys, PublishFailures)

SpecPublish == Init /\ [][NextPublish]_vars

ValidateStep(candidates) ==
    \E d \in candidates, check_extra \in BOOLEAN :
      validate_election_data(d, check_extra)

\* The validator: every candidate submission in both modes, before and
\* after election e1 was posted.
NextValidator ==
    \/ PostStep({"e1"})
    \/ ValidateStep(Candidates)

SpecValidator == Init /\ [][NextValidator]_vars

WorkerStep(targets, contents, keys) ==
    \E w \in Workers :
      \/ \E p \in targets, content \in contents :
           public_key_begin(w, p[1], p[2], content)
      \/ public_key_check(w)
      \/ public_key_protinfo(w)
      \/ \E key \in keys, exit \in {0, 1} : public_key_keygen(w, key, exit)
      \/ public_key_transcode(w)
      \/ public_key_publish(w)

\* Phase 2 dispatched to two workers at once, on the director of a posted
\* election: every interleaving of the statements of two
\* generate_public_key tasks.
NextConcurrent ==
    \/ PostStep({"e1"})
    \/ WorkerStep(Paths, ProtInfoContents, RawKeys)

SpecConcurrent == Init /\ [][NextConcurrent]_vars

(***************************************************************************)
(* Properties.                                                             *)
(***************************************************************************)
\* the sessions of a task's input_data
sessionsOf(name) == input_data(name).sessions

\* the election of a task's input_data
electionOf(name) == input_data(name).election_id

\* the last handler was generate_private_info, repeated for an input and
\* sender it already handled
IsRepeat(call, seen) ==
    /\ call.op = "generate_private_info"
    /\ [input |-> call.input, sender |-> call.sender] \in seen

\* every session of the input has its row, its directory and its stub, and
\* the election its row and one Authority row per entry
FullyBootstrapped(st, fs, name) ==
    LET data == input_data(name)
        e == data.election_id
    IN  /\ st[e].present
        /\ Len(st[e].authorities) = Len(data.authorities)
        /\ Len(st[e].sessions) = Len(data.sessions)
        /\ \A i \in 1..Len(data.sessions) :
             /\ st[e].sessions[i].id = data.sessions[i].id
             /\ fs[<<e, data.sessions[i].id>>].exists
             /\ fs[<<e, data.sessions[i].id>>].stub = data.sessions[i].stub

\* the positions of the sessions of the input that have a localProtInfo.xml
withDescriptor(fs, name) ==
    {i \in 1..Len(sessionsOf(name)) :
       fs[<<electionOf(name), sessionsOf(name)[i].id>>].localProtInfo # NoFile}

Range(q) == {q[i] : i \in 1..Len(q)}

\* C2: with auto-accept on, generate_private_info adds no approval task and
\* the gate never stops generate_private_info_verificatum; with auto-accept
\* off and a decision that is absent or anything but exactly
\* {status: accepted}, it fails with "task not accepted", invokes
\* CryptoEngine for no session and sets no output on the parent task.
C2_ApprovalGate ==
    /\ autoaccept =>
         /\ last.op = "generate_private_info" =>
              "approve_election" \notin Range(last.subtasks)
         /\ \A task \in BagToSet(tasks) : task.approval.state = "none"
         /\ last.op = "generate_private_info_verificatum" =>
              last.result.msg # "task not accepted"
    /\ (/\ ~autoaccept
        /\ last.op = "generate_private_info_verificatum"
        /\ last.decision # {<<"status", "accepted">>})
         => /\ last.result = TaskError("task not accepted", "")
            /\ last.engine = 0
            /\ ~last.output_set
            /\ last.output_data = << >>

\* C2 witness: phase 1 was refused on a decision that holds status accepted
\* and something more
C2_Witness ==
    /\ ~autoaccept
    /\ last.op = "generate_private_info_verificatum"
    /\ last.decision = {<<"status", "accepted">>, <<"comment", "ok">>}
    /\ last.result.msg = "task not accepted"

\* the session generate_public_key was asked about has a raw or encoded key
keyExists(fs, e, s) ==
    /\ <<e, s>> \in Paths
    /\ \/ fs[<<e, s>>].publicKey_raw # NoFile
       \/ fs[<<e, s>>].publicKey_json # NoFile

\* C3: generate_public_key for a session that has publicKey_raw or
\* publicKey_json fails with "pubkey already created", invokes CryptoEngine
\* not once and leaves every private and public file as it was.
C3_PublicKeyWriteOnce ==
    [][ (/\ last'.op = "generate_public_key"
         /\ keyExists(priv, last'.election_id, last'.session_id))
          => /\ last'.result = TaskError("pubkey already created", "")
             /\ last'.engine = 0
             /\ UNCHANGED <<priv, pub, store, tasks>> ]_vars

\* C3 witness: the call was refused for a session that has the raw key and
\* not yet the encoded one
C3_Witness ==
    /\ last.op = "generate_public_key"
    /\ last.result.msg = "pubkey already created"
    /\ <<last.election_id, last.session_id>> \in Paths
    /\ priv[<<last.election_id, last.session_id>>].publicKey_raw # NoFile
    /\ priv[<<last.election_id, last.session_id>>].publicKey_json = NoFile

\* C4 as stated: an execution of generate_private_info on the performer
\* path leaves the node fully bootstrapped or as it was, also when it
\* fails part-way.
C4_AllOrNothing ==
    [][ (last'.op = "generate_private_info" /\ last'.path = "performer")
          => \/ FullyBootstrapped(store', priv', last'.input)
             \/ UNCHANGED <<store, priv, pub>> ]_vars

\* the reasons of the failures generate_private_info raises from its checks
ValidationReasons ==
    {"questions_data is not in json", "invalid parameter",
     "invalid characters in election_id", "no authorities",
     "Unsupported number of questions in the election",
     "invalid authorities parameters",
     "No sessions provided", "Invalid session data provided",
     "trying to process what SEEMS to be an external election",
     "session_id already created", "Already existing election id"}

\* C5: when generate_private_info fails one of its checks, the Store and
\* both directory trees are as they were before the call.
C5_ValidationBeforeMutation ==
    [][ (/\ last'.op = "generate_private_info"
         /\ last'.result.msg \in ValidationReasons)
          => UNCHANGED <<store, priv, pub, tasks>> ]_vars

\* C5 witness: the last of the checks refused a submission
C5_Witness ==
    /\ last.op = "generate_private_info"
    /\ last.result.msg = "Already existing election id"

\* C6: generate_private_info resolves the role whenever its checks pass;
\* a sender with the local certificate takes the director path, which
\* adds no row, directory or stub, any other sender the performer path,
\* which, when it returns normally, has created them all.
C6_RoleResolver ==
    [][ last'.op = "generate_private_info"
          => /\ last'.result = OK => last'.path # ""
             /\ last'.path \in {"", "director", "performer"}
             /\ last'.path = "director" => last'.sender = SSL_CERT_STRING
             /\ last'.path = "performer" => last'.sender # SSL_CERT_STRING
             /\ last'.sender = SSL_CERT_STRING => UNCHANGED <<store, priv, pub>>
             /\ (last'.path = "performer" /\ last'.result = OK)
                  => /\ ~store[last'.election_id].present
                     /\ \A p \in Paths : p[1] = last'.election_id => ~priv[p].exists
                     /\ FullyBootstrapped(store', priv', last'.input) ]_vars

\* C6 witness: the director path was taken for an election the Store holds
C6_Witness ==
    /\ last.op = "generate_private_info"
    /\ last.path = "director"
    /\ last.result = OK
    /\ store[last.election_id].present

\* C7: when generate_private_info_verificatum returns normally, the output
\* it set on the parent task has one descriptor per session, the i-th the
\* localProtInfo.xml of the i-th session, and CryptoEngine ran once per
\* session.
C7_PhaseOneResult ==
    (last.op = "generate_private_info_verificatum" /\ last.result = OK)
      => /\ last.output_set
         /\ Len(last.output_data) = Len(sessionsOf(last.input))
         /\ \A i \in 1..Len(sessionsOf(last.input)) :
              /\ last.output_data[i] # NoFile
              /\ last.output_data[i] =
                   priv[<<last.election_id,
                          sessionsOf(last.input)[i].id>>].localProtInfo
         /\ last.engine = Len(sessionsOf(last.input))
         /\ last.failed_at = 0

\* C7 witness: phase 1 reported the descriptors of two sessions, which
\* differ
C7_Witness ==
    /\ last.op = "generate_private_info_verificatum"
    /\ last.result = OK
    /\ Len(last.output_data) = 2
    /\ last.output_data[1] # last.output_data[2]

\* C8: when CryptoEngine fails for a session, the step fails and sets no
\* output on the parent task, not even the descriptors of the sessions
\* before it.
C8_PhaseOneFailureTotal ==
    (last.op = "generate_private_info_verificatum" /\ last.failed_at # 0)
      => /\ last.result # OK
         /\ ~last.output_set
         /\ last.output_data = << >>

\* C8 witness: CryptoEngine failed for the second session, after the first
\* session's descriptor was written
C8_Witness ==
    /\ last.op = "generate_private_info_verificatum"
    /\ last.failed_at = 2
    /\ priv[<<last.election_id, sessionsOf(last.input)[1].id>>].localProtInfo
         # NoFile

\* C9: generate_public_key for a pair whose private session directory does
\* not exist fails with "invalid session_id / election_id" and creates
\* nothing.
C9_SessionPrecondition ==
    [][ (/\ last'.op = "generate_public_key"
         /\ \/ <<last'.election_id, last'.session_id>> \notin Paths
            \/ ~priv[<<last'.election_id, last'.session_id>>].exists)
          => /\ last'.result = TaskError("invalid session_id / election_id", "")
             /\ last'.engine = 0
             /\ UNCHANGED <<priv, pub, store, tasks>> ]_vars

\* C9 witness: the call was refused for a session the election does not
\* have, the election's directory being there
C9_Witness ==
    /\ last.op = "generate_public_key"
    /\ last.result.msg = "invalid session_id / election_id"
    /\ last.election_id = "e1"
    /\ last.session_id = "s3"
    /\ priv[<<"e1", "s1">>].exists

\* the posted submissions that break none of the rules checked before the
\* query of the Election table
PassesEarlierRules == {"e1", "e1_dupcert"}

\* C10: in first-submission mode a submission whose identifier has an
\* Election row is rejected, with "an election with id X already exists"
\* when no earlier rule rejects it; in re-validation mode
\* (generate_private_info) the row is no reason to reject.
C10_IdentifierUniqueness ==
    [][ /\ (last'.op = "post_election" /\ store[last'.election_id].present)
             => /\ last'.result # OK
                /\ last'.input \in PassesEarlierRules =>
                     last'.result =
                       TaskError("an election with id already exists",
                                 last'.election_id)
        /\ (last'.op = "post_election" /\ ~store[last'.election_id].present)
             => last'.result.msg # "an election with id already exists"
        /\ (last'.op = "generate_private_info" /\ store[last'.election_id].present)
             => /\ last'.result.msg # "an election with id already exists"
                /\ last'.input = "e1" =>
                     last'.result.msg \in {"ok", "session_id already created",
                                           "Already existing election id"} ]_vars

\* C10 witness: the same submission was posted again and refused
C10_Witness ==
    /\ last.op = "post_election"
    /\ last.input = "e1"
    /\ last.result = TaskError("an election with id already exists", "e1")

\* two entries of an authority list hold the same value under key k
Collision(auths, k) ==
    \E i, j \in 1..Len(auths) : i < j /\ auths[i][k] = auths[j][k]

\* C11 as stated: check_election_data rejects every submission in which two
\* authorities have the same name, the same endpoint or the same
\* certificate.
C11_AuthorityUniqueness ==
    (/\ last.op = "check_election_data"
     /\ \E k \in {"name", "orchestra_url", "ssl_cert"} :
          Collision(last.data.authorities, k))
      => last.result # OK

\* the rule of section 4.1 a failure reports: 0 for success, 9 for a
\* failure that is none of the validator's reasons
RuleOf(result) ==
    CASE result = OK -> 0
      [] result.msg = "invalid parameter"
           /\ result.arg \in {"election_id", "title", "url", "description",
                               "is_recurring", "authorities"} -> 1
      [] result.msg = "invalid parameter"
           /\ result.arg \in {"callback_url", "extra", "questions_data"} -> 2
      [] result.msg = "questions_data is not in json" -> 2
      [] result.msg = "invalid parameter"
           /\ result.arg \in {"voting_start_date", "voting_send_date"} -> 3
      [] result.msg = "invalid characters in election_id" -> 4
      [] result.msg \in {"no authorities",
                         "Unsupported number of questions in the election"} -> 5
      [] result.msg = "an election with id already exists" -> 6
      [] result.msg = "invalid parameter"
           /\ result.arg \in {"name", "orchestra_url", "ssl_cert"} -> 7
      [] result.msg = "invalid authorities parameters" -> 8
      [] OTHER -> 9

\* candidate d violates rule k of section 4.1 in the given mode, against
\* the Election rows; dateKeyOptional tells whether a submission without
\* the voting date key passes rule 3.  The question payload is a list in
\* first-submission mode and the JSON string of one in re-validation mode.
Violates(d, check_extra, rows, k, dateKeyOptional) ==
    CASE k = 1 -> d.title # "basestring"
      [] k = 2 -> IF check_extra THEN d.questions_data.t # "list"
                  ELSE \/ d.questions_data.t # "basestring"
                       \/ d.questions_data.json # "list"
      [] k = 3 -> /\ d.voting_start_date \notin {"datetime", "NoneType"}
                  /\ ~(dateKeyOptional /\ d.voting_start_date = "absent")
      [] k = 4 -> d.election_id \notin {"e1", "e2"}
      [] k = 5 -> \/ d.authorities = << >>
                  \/ d.questions_data.n < 1
                  \/ d.questions_data.n > 10
      [] k = 6 -> check_extra /\ d.election_id \in rows
      [] k = 7 -> \E i \in 1..Len(d.authorities) :
                    \E f \in {"name", "orchestra_url", "ssl_cert"} :
                      d.authorities[i][f] \in {ABSENT, NOTSTR, NOTDICT}
      [] k = 8 -> \/ Collision(d.authorities, "ssl_cert")
                  \/ Collision(d.authorities, "orchestra_url")

\* the first rule violated of a sequence of rules, 0 when none is
FirstViolated(d, check_extra, rows, order, dateKeyOptional) ==
    LET bad == {i \in 1..Len(order) :
                  Violates(d, check_extra, rows, order[i], dateKeyOptional)}
    IN  IF bad = {} THEN 0
        ELSE order[CHOOSE i \in bad : \A j \in bad : i <= j]

\* the first entry of an authority list that breaks rule 7 is no dict
FirstBadEntryIsNoDict(auths) ==
    \E i \in 1..Len(auths) :
      /\ auths[i].name = NOTDICT
      /\ \A j \in 1..(i - 1) :
           \A f \in {"name", "orchestra_url", "ssl_cert"} :
             auths[j][f] \notin {ABSENT, NOTSTR, NOTDICT}

\* the order of section 4.1
SpecOrder == <<1, 2, 3, 4, 5, 6, 7, 8>>

\* the order in re-validation mode: the question payload is parsed first
RevalidationOrder == <<2, 1, 3, 4, 5, 6, 7, 8>>

StatusFromFiles(fs, pb, p) ==
    IF pb[p].publicKey_json # NoFile /\ pb[p].protInfo # NoFile
      THEN "published"
    ELSE IF fs[p].publicKey_raw # NoFile /\ fs[p].publicKey_json # NoFile
      THEN "key_generated"
    ELSE IF fs[p].localProtInfo # NoFile THEN "descriptor_ready"
    ELSE "default"

\* C13 as stated: the status of every Session row is the one its files
\* stand for.
C13_StatusMirrorsFiles ==
    \A e \in ElectionIds :
      \A i \in 1..Len(store[e].sessions) :
        LET row == store[e].sessions[i]
        IN  <<e, row.id>> \in Paths
              => row.status = StatusFromFiles(priv, pub, <<e, row.id>>)

\* C13 amended: the status of every Session row is 'default' in every
\* reachable state, whatever files the session has.
C13_StatusStaysDefault ==
    \A e \in ElectionIds :
      \A i \in 1..Len(store[e].sessions) :
        store[e].sessions[i].status = "default"

\* C13 witness: a session whose key is published has a row, of status
\* 'default'
C13_Witness ==
    \E e \in ElectionIds :
      \E i \in 1..Len(store[e].sessions) :
        LET row == store[e].sessions[i]
        IN  /\ row.status = "default"
            /\ StatusFromFiles(priv, pub, <<e, row.id>>) = "published"

\* C14 as stated: generate_public_key generates a key for a session only
\* once phase 1 has produced that session's localProtInfo.xml on this node,
\* which it does only past the approval gate.
C14_CeremonyOrdering ==
    [][ (last'.op = "generate_public_key" /\ last'.engine > 0)
          => /\ <<last'.election_id, last'.session_id>> \in Paths
             /\ priv[<<last'.election_id, last'.session_id>>].localProtInfo
                  # NoFile ]_vars

\* C15 as stated: generate_private_info_verificatum invokes CryptoEngine
\* for no session that already has its localProtInfo.xml.
C15_LocalDescriptorWriteOnce ==
    [][ last'.op = "generate_private_info_verificatum"
          => \A i \in 1..last'.engine :
               priv[<<last'.election_id,
                      sessionsOf(last'.input)[i].id>>].localProtInfo
                 = NoFile ]_vars

\* C16: generate_public_key for a session that has its directory leaves
\* protInfo.xml holding the content it was given when there was none, and
\* what it held when there was one, whatever content it was given; the
\* protInfo.xml of the public directory, once copied, is the private one,
\* and it is copied whenever the handler returns normally.
C16_MergedDescriptor ==
    [][ (/\ last'.op = "generate_public_key"
         /\ <<last'.election_id, last'.session_id>> \in Paths
         /\ priv[<<last'.election_id, last'.session_id>>].exists)
          => LET p == <<last'.election_id, last'.session_id>>
             IN  /\ priv[p].protInfo = NoFile
                      => priv'[p].protInfo = last'.protInfo_content
                 /\ priv[p].protInfo # NoFile
                      => priv'[p].protInfo = priv[p].protInfo
                 /\ pub'[p].protInfo # NoFile
                      => pub'[p].protInfo = priv'[p].protInfo
                 /\ last'.result = OK
                      => /\ priv'[p].protInfo # NoFile
                         /\ pub'[p].protInfo = priv'[p].protInfo ]_vars

\* C16 witness: the handler was given a merged descriptor other than the
\* one the session had, kept the one it had and published it
C16_Witness ==
    /\ last.op = "generate_public_key"
    /\ last.result = OK
    /\ priv[<<last.election_id, last.session_id>>].protInfo
         # last.protInfo_content
    /\ pub[<<last.election_id, last.session_id>>].protInfo
         = priv[<<last.election_id, last.session_id>>].protInfo

\* C17 as stated: a generate_public_key that comes right after one that was
\* interrupted past the guards, for the same session, and is not
\* interrupted itself, returns normally with the encoded key and the
\* merged descriptor in the public directory, and leaves a raw key that
\* was there as it was.
C17_RetrySafe ==
    [][ (/\ last.op = "generate_public_key"
         /\ last.result = Exception
         /\ last'.op = "generate_public_key"
         /\ last'.election_id = last.election_id
         /\ last'.session_id = last.session_id
         /\ last'.result # Exception)
          => LET p == <<last.election_id, last.session_id>>
             IN  /\ last'.result = OK
                 /\ pub'[p].publicKey_json # NoFile
                 /\ pub'[p].protInfo # NoFile
                 /\ priv[p].publicKey_raw # NoFile
                      => priv'[p].publicKey_raw = priv[p].publicKey_raw ]_vars

\* C18: when generate_private_info_verificatum finds a decision other
\* than accepted, with auto-accept off, it fails with "task not accepted",
\* its task is over and no other is added, and the rows, the private
\* directories, the stubs and the public directories are as they were; no
\* localProtInfo.xml appears.
C18_NoRollbackOnRejection ==
    [][ (/\ last'.op = "generate_private_info_verificatum"
         /\ ~autoaccept
         /\ last'.decision # Accepted)
          => /\ last'.result = TaskError("task not accepted", "")
             /\ UNCHANGED <<store, priv, pub>>
             /\ BagCardinality(tasks') = BagCardinality(tasks) - 1
             /\ \A t \in BagToSet(tasks') : BagIn(t, tasks) ]_vars

\* C18 witness: phase 1 was refused on a rejected approval for an election
\* that keeps its rows, its session directories and its stubs
C18_Witness ==
    /\ last.op = "generate_private_info_verificatum"
    /\ last.decision = {<<"status", "rejected">>}
    /\ last.result.msg = "task not accepted"
    /\ FullyBootstrapped(store, priv, last.input)

\* C19 as stated: of two generate_public_key tasks for one session that
\* has its directory, however their statements interleave, at most one
\* runs keygen, and once both are over the other has failed with "pubkey
\* already created".
C19_ConcurrentPublicKey ==
    \A w1, w2 \in Workers :
      (/\ w1 # w2
       /\ running[w1].pc \notin {"idle", "check"}
       /\ running[w2].pc \notin {"idle", "check"}
       /\ running[w1].election_id = running[w2].election_id
       /\ running[w1].session_id = running[w2].session_id
       /\ running[w1].result.msg # "invalid session_id / election_id"
       /\ running[w2].result.msg # "invalid session_id / election_id")
        => /\ running[w1].keygen + running[w2].keygen <= 1
           /\ (running[w1].pc = "done" /\ running[w2].pc = "done")
                => \E w \in {w1, w2} :
                     running[w].result = TaskError("pubkey already created", "")

\* C20: whenever the public directory of a session holds publicKey_json,
\* the session's private directory holds publicKey_raw, publicKey_json and
\* protInfo.xml, the public publicKey_json is the private one, and the
\* public protInfo.xml, if it is there, is the private one.
C20_PublicMirror ==
    \A p \in Paths :
      pub[p].publicKey_json # NoFile
        => /\ pub[p].exists
           /\ priv[p].publicKey_raw # NoFile
           /\ priv[p].publicKey_json # NoFile
           /\ priv[p].protInfo # NoFile
           /\ pub[p].publicKey_json = priv[p].publicKey_json
           /\ pub[p].publicKey_json = transcode(priv[p].publicKey_raw)
           /\ pub[p].protInfo \in {NoFile, priv[p].protInfo}

\* C20 witness: the key of a session was published while the copy of the
\* merged descriptor failed
C20_Witness ==
    /\ last.op = "generate_public_key"
    /\ last.result = Exception
    /\ pub[<<last.election_id, last.session_id>>].publicKey_json # NoFile
    /\ pub[<<last.election_id, last.session_id>>].protInfo = NoFile

====
